---------------------------- MODULE Spec2Model ----------------------------
(***************************************************************************)
(* Model of tempoai_mcp_server/utils/formatting.py: the record renderers   *)
(* of the Tempo AI MCP server.  A record is a Python dict; every formatter *)
(* is a function from a record to a list of text lines (joined by "\n").   *)
(*                                                                         *)
(* Python values are tagged records [k |-> kind, ...]:                     *)
(*   absent  the key is not in the dict                                    *)
(*   none    the key is present and holds None                            *)
(*   int     n is the integer                                              *)
(*   float   n is the number of hundredths (n = 350 is 3.5)                *)
(*   str     s is the text                                                 *)
(*   bool    b is the truth value                                          *)
(*   dict    items is the sequence of <<key, value>> in insertion order    *)
(*   list    items is the sequence of elements                             *)
(*   raise   an exception left the expression (KeyError, TypeError, ...)   *)
(* A line of output is the sequence of the pieces of its f-string: the     *)
(* literal text and the rendered values, in order.                         *)
(***************************************************************************)
EXTENDS Integers, Sequences, FiniteSets, TLC

VARIABLES
    kind,    \* which sort of input was constructed
    input,   \* the input as constructed (the caller's copy)
    rec,     \* the object handed to the formatters
    out,     \* per function: the result of its latest call
    prev     \* per function: the result of the call before the latest

vars == <<kind, input, rec, out, prev>>

---------------------------------------------------------------------------
(* Python values *)

Absent == [k |-> "absent"]
None == [k |-> "none"]
Raise == [k |-> "raise"]
PyInt(n) == [k |-> "int", n |-> n]
PyFloat(t) == [k |-> "float", n |-> t]
PyStr(s) == [k |-> "str", s |-> s]
PyBool(b) == [k |-> "bool", b |-> b]
PyDict(items) == [k |-> "dict", items |-> items]
PyList(items) == [k |-> "list", items |-> items]

IsNumber(v) == v.k \in {"int", "float", "bool"}

\* The value of a number in hundredths.
Hundredths(v) ==
    CASE v.k = "int" -> 100 * v.n
      [] v.k = "float" -> v.n
      [] v.k = "bool" -> IF v.b THEN 100 ELSE 0

\* dict.get(key): None when the key is missing.
Get(d, key) == IF d[key].k = "absent" THEN None ELSE d[key]

\* dict.get(key, default): the default only when the key is missing.
GetDefault(d, key, default) == IF d[key].k = "absent" THEN default ELSE d[key]

\* d[key]: KeyError when the key is missing.
Index(d, key) == IF d[key].k = "absent" THEN Raise ELSE d[key]

\* bool(v), the test of `if v:`.
Truthy(v) ==
    CASE v.k \in {"absent", "none", "raise"} -> FALSE
      [] v.k \in {"int", "float"} -> v.n # 0
      [] v.k = "str" -> v.s # ""
      [] v.k = "bool" -> v.b
      [] v.k \in {"dict", "list"} -> Len(v.items) > 0

\* `value is not None` written as a truthiness test.
IsNotNoneByTruth(v) == Truthy(v)

IsNotNone(v) == v.k # "none"

---------------------------------------------------------------------------
(* Rendering of values: str() and the format specs .0f, .1f, .2f *)

RaiseText == "<raise>"

Abs(n) == IF n < 0 THEN -n ELSE n

\* m / 10^digits written with exactly `digits` decimals, m >= 0.
Digits(m, digits) ==
    CASE digits = 0 -> ToString(m)
      [] digits = 1 -> ToString(m \div 10) \o "." \o ToString(m % 10)
      [] digits = 2 -> ToString(m \div 100) \o "." \o ToString((m % 100) \div 10)
                           \o ToString(m % 10)

\* num / den (den > 0) rounded to the nearest integer, ties to even.
RoundHalfEven(num, den) ==
    LET q == num \div den
        r == num % den
    IN  IF 2 * r < den THEN q
        ELSE IF 2 * r > den THEN q + 1
        ELSE IF q % 2 = 0 THEN q ELSE q + 1

Pow10(d) == CASE d = 0 -> 1 [] d = 1 -> 10 [] d = 2 -> 100

\* f"{num/den:.{digits}f}": fixed notation, the sign kept on a negative zero.
FormatFixed(num, den, digits) ==
    LET m == RoundHalfEven(num * Pow10(digits), den)
    IN  (IF num < 0 THEN "-" ELSE "") \o Digits(Abs(m), digits)

\* f"{v:.{digits}f}" of a Python value: TypeError on None, ValueError on str.
Fmt(v, digits) ==
    IF IsNumber(v) THEN FormatFixed(Hundredths(v), 100, digits) ELSE RaiseText

\* repr of the float h / 100: the shortest text that reads back as it.
Repr(h) ==
    IF h % 10 # 0 THEN FormatFixed(h, 100, 2) ELSE FormatFixed(h, 100, 1)

\* str(v), what f"{v}" renders.
Str(v) ==
    CASE v.k = "none" -> "None"
      [] v.k = "int" -> ToString(v.n)
      [] v.k = "float" -> Repr(v.n)
      [] v.k = "str" -> v.s
      [] v.k = "bool" -> IF v.b THEN "True" ELSE "False"
      [] v.k = "dict" -> "{...}"
      [] v.k = "list" -> "[...]"
      [] OTHER -> RaiseText

---------------------------------------------------------------------------
(* Scalar formatters *)

\* str.replace("Z", "+00:00") on the timestamp texts of the model.
ReplaceZ(s) ==
    CASE s = "2024-04-15T08:00:00Z" -> "2024-04-15T08:00:00+00:00"
      [] OTHER -> s

\* datetime.fromisoformat(s).strftime("%Y-%m-%d %H:%M:%S"); "" is ValueError.
FromIsoFormat(s) ==
    CASE s = "2024-04-15T08:00:00+00:00" -> "2024-04-15 08:00:00"
      [] s = "2024-01-01T08:10:00" -> "2024-01-01 08:10:00"
      [] s = "2024-01-01" -> "2024-01-01 00:00:00"
      [] OTHER -> ""

_format_datetime(dt_value) ==
    IF dt_value.k = "none" THEN "N/A"
    ELSE IF dt_value.k = "str"
         THEN LET dt == FromIsoFormat(ReplaceZ(dt_value.s))
              IN  IF dt # "" THEN dt ELSE dt_value.s
    ELSE Str(dt_value)

\* The minutes taken from the whole duration, the hours not removed first.
DurationMinutesNotReduced(seconds) ==
    IF seconds.k = "none" THEN "N/A"
    ELSE IF ~IsNumber(seconds) THEN RaiseText
    ELSE LET t == Hundredths(seconds)
             hours == t \div 360000
             minutes == t \div 6000
             secs == (t % 6000) \div 100
         IN  IF hours > 0
             THEN ToString(hours) \o "h " \o ToString(minutes) \o "m "
                      \o ToString(secs) \o "s"
             ELSE IF minutes > 0
             THEN ToString(minutes) \o "m " \o ToString(secs) \o "s"
             ELSE ToString(secs) \o "s"

_format_duration(seconds) ==
    IF seconds.k = "none" THEN "N/A"
    ELSE IF ~IsNumber(seconds) THEN RaiseText
    ELSE LET t == Hundredths(seconds)
             hours == t \div 360000
             minutes == (t % 360000) \div 6000
             secs == (t % 6000) \div 100
         IN  IF hours > 0
             THEN ToString(hours) \o "h " \o ToString(minutes) \o "m "
                      \o ToString(secs) \o "s"
             ELSE IF minutes > 0
             THEN ToString(minutes) \o "m " \o ToString(secs) \o "s"
             ELSE ToString(secs) \o "s"

\* The kilometre form chosen by meters > 1000 instead of meters >= 1000.
DistanceStrictThreshold(meters) ==
    IF meters.k = "none" THEN "N/A"
    ELSE IF ~IsNumber(meters) THEN RaiseText
    ELSE IF Hundredths(meters) > 100000
    THEN FormatFixed(Hundredths(meters), 100000, 2) \o " km"
    ELSE Fmt(meters, 0) \o " m"

_format_distance(meters) ==
    IF meters.k = "none" THEN "N/A"
    ELSE IF ~IsNumber(meters) THEN RaiseText
    ELSE IF Hundredths(meters) >= 100000
    THEN FormatFixed(Hundredths(meters), 100000, 2) \o " km"
    ELSE Fmt(meters, 0) \o " m"

_get_value(data, key, default) ==
    LET value == Get(data, key)
    IN  IF value.k = "none" THEN default ELSE Str(value)

_format_percentage(value) ==
    IF value.k = "none" THEN "N/A" ELSE Fmt(value, 1) \o "%"

---------------------------------------------------------------------------
(* math.log in fixed point: values carry LnScale units per 1 *)

LnScale == 1000000
Ln2 == 693147
Ln100 == 4605170

\* a * b / LnScale for 0 <= a, b < LnScale, without leaving 32 bits.
MulFix(a, b) == ((a \div 1000) * b + ((a % 1000) * b) \div 1000) \div 1000

RECURSIVE Log2Floor(_)
Log2Floor(n) == IF n < 2 THEN 0 ELSE 1 + Log2Floor(n \div 2)

RECURSIVE Pow2(_)
Pow2(e) == IF e = 0 THEN 1 ELSE 2 * Pow2(e - 1)

\* ln(n) for an integer n >= 1: n = 2^e * m with 1 <= m < 2, and
\* ln(m) = 2 * atanh(z), z = (m - 1) / (m + 1), by its power series.
LnInt(n) ==
    LET e == Log2Floor(n)
        p == Pow2(e)
        zHigh == ((n - p) * 1000) \div (n + p)
        zLow == ((((n - p) * 1000) % (n + p)) * 1000) \div (n + p)
        z == zHigh * 1000 + zLow
        z2 == MulFix(z, z)
        z3 == MulFix(z, z2)
        z5 == MulFix(z3, z2)
        z7 == MulFix(z5, z2)
        z9 == MulFix(z7, z2)
        z11 == MulFix(z9, z2)
        z13 == MulFix(z11, z2)
        z15 == MulFix(z13, z2)
        series == z + z3 \div 3 + z5 \div 5 + z7 \div 7 + z9 \div 9
                    + z11 \div 11 + z13 \div 13 + z15 \div 15
    IN  e * Ln2 + 2 * series

\* math.log(x) of a positive number, in LnScale units.
MathLog(x) ==
    IF x.k = "float" THEN LnInt(x.n) - Ln100 ELSE LnInt(Hundredths(x) \div 100)

\* round(): to the nearest integer, ties to even.
PyRound(scaled) == RoundHalfEven(scaled, LnScale)

\* math.log raises ValueError outside its domain.
MathLogRaises(x) == Hundredths(x) <= 0

\* rmssd <= 0 read as rmssd < 0: the guard lets 0 through to math.log.
HrvScoreGuardOffByOne(rmssd) ==
    IF rmssd.k = "none" THEN None
    ELSE IF ~IsNumber(rmssd) THEN Raise
    ELSE IF Hundredths(rmssd) < 0 THEN None
    ELSE IF MathLogRaises(rmssd) THEN Raise
    ELSE PyInt(PyRound(MathLog(rmssd) * 20))

\* The HRV score, or None.
_calculate_hrv_score(rmssd) ==
    IF rmssd.k = "none" THEN None
    ELSE IF ~IsNumber(rmssd) THEN Raise
    ELSE IF Hundredths(rmssd) <= 0 THEN None
    ELSE IF MathLogRaises(rmssd) THEN Raise
    ELSE PyInt(PyRound(MathLog(rmssd) * 20))

---------------------------------------------------------------------------
(* Lines, and the result of a call *)

\* The guard of an optional line dropped: the line is always appended.
OptUnguarded(cond, line) == <<line>>

\* lines.append(x) when cond holds.
Opt(cond, line) == IF cond THEN <<line>> ELSE <<>>

RECURSIVE Flatten(_)
Flatten(seqs) == IF seqs = <<>> THEN <<>> ELSE Head(seqs) \o Flatten(Tail(seqs))

\* ' / '.join(parts) that keeps the first part only.
JoinPartsFirstOnly(parts, sep) == IF parts = <<>> THEN <<>> ELSE parts[1]

\* sep.join(parts), each part a sequence of pieces.
RECURSIVE JoinParts(_, _)
JoinParts(parts, sep) ==
    IF parts = <<>> THEN <<>>
    ELSE IF Len(parts) = 1 THEN Head(parts)
    ELSE Head(parts) \o <<sep>> \o JoinParts(Tail(parts), sep)

\* The text of a line: its pieces concatenated.
RECURSIVE Text(_)
Text(line) == IF line = <<>> THEN "" ELSE Head(line) \o Text(Tail(line))

Raises(lines) ==
    \E i \in 1..Len(lines) : \E j \in 1..Len(lines[i]) : lines[i][j] = RaiseText

\* "\n".join(lines) returned, unless an exception left the function.
Returned(lines) == IF Raises(lines) THEN Raise ELSE [k |-> "ok", lines |-> lines]

\* key in d, and d[key], for a dict value.
DictHas(d, key) == \E i \in 1..Len(d.items) : d.items[i][1] = key
DictGet(d, key) ==
    d.items[CHOOSE i \in 1..Len(d.items) : d.items[i][1] = key][2]

---------------------------------------------------------------------------
(* Lookup tables *)

HR_ZONE_NAMES ==
    [Z1 |-> "Z1 Recovery", Z2 |-> "Z2 Endurance", Z3 |-> "Z3 Tempo",
     Z4 |-> "Z4 Threshold", Z5 |-> "Z5 VO2 Max"]

POWER_ZONE_NAMES ==
    [Z1 |-> "Z1 Recovery", Z2 |-> "Z2 Endurance", Z3 |-> "Z3 Tempo",
     SS |-> "SS Sweet Spot", Z4 |-> "Z4 Threshold", Z5 |-> "Z5 VO2 Max",
     Z6 |-> "Z6 Anaerobic", Z7 |-> "Z7 Neuromuscular"]

TEMPERATURE_ZONE_NAMES ==
    [z1_freezing |-> "Freezing", z2_cold |-> "Cold", z3_cool |-> "Cool",
     z4_mild |-> "Mild", z5_warm |-> "Warm", z6_hot |-> "Hot",
     z7_extreme |-> "Extreme"]

CORE_TEMPERATURE_ZONE_NAMES ==
    [z1_low |-> "Low", z2_normal |-> "Normal", z3_moderate |-> "Moderate",
     z4_elevated |-> "Elevated", z5_high |-> "High", z6_very_high |-> "Very High"]

SKIN_TEMPERATURE_ZONE_NAMES ==
    [z1_cool |-> "Cool", z2_mild |-> "Mild", z3_normal |-> "Normal",
     z4_warm |-> "Warm", z5_hot |-> "Hot", z6_very_hot |-> "Very Hot"]

HEAT_STRAIN_ZONE_NAMES ==
    [z1_no_strain |-> "No Strain", z2_moderate |-> "Moderate", z3_high |-> "High",
     z4_extremely_high |-> "Extremely High"]

POWER_DURATION_BENCHMARKS ==
    <<"1s", "3s", "5s", "10s", "12s", "15s", "20s", "30s", "45s", "1min", "2min",
      "3min", "5min", "8min", "10min", "12min", "15min", "20min", "30min", "40min",
      "60min", "90min", "2h", "3h", "4h", "5h">>

---------------------------------------------------------------------------
(* Zone-distribution formatter *)

\* _format_time_in_zone that returns the header for an empty mapping too.
FormatTimeInZoneHeaderForEmpty(zone_data, label, zone_names) ==
    IF zone_data.k # "dict" THEN <<>>
    ELSE <<  <<label, ":">>  >> \o
         [i \in 1..Len(zone_data.items) |->
            LET zone_key == zone_data.items[i][1]
                seconds == zone_data.items[i][2]
                display_name ==
                    IF DOMAIN zone_names # {} /\ zone_key \in DOMAIN zone_names
                    THEN zone_names[zone_key] ELSE zone_key
            IN  <<"  ", display_name, ": ", _format_duration(seconds)>>]

\* _format_time_in_zone that drops the entries whose code is not in the
\* vocabulary.
FormatTimeInZoneDropsUnknown(zone_data, label, zone_names) ==
    IF ~Truthy(zone_data) \/ zone_data.k # "dict" THEN <<>>
    ELSE <<  <<label, ":">>  >> \o
         Flatten([i \in 1..Len(zone_data.items) |->
            LET zone_key == zone_data.items[i][1]
                seconds == zone_data.items[i][2]
            IN  IF zone_key \in DOMAIN zone_names
                THEN << <<"  ", zone_names[zone_key], ": ", _format_duration(seconds)>> >>
                ELSE <<>>])

_format_time_in_zone(zone_data, label, zone_names) ==
    IF ~Truthy(zone_data) \/ zone_data.k # "dict" THEN <<>>
    ELSE <<  <<label, ":">>  >> \o
         [i \in 1..Len(zone_data.items) |->
            LET zone_key == zone_data.items[i][1]
                seconds == zone_data.items[i][2]
                display_name ==
                    IF DOMAIN zone_names # {} /\ zone_key \in DOMAIN zone_names
                    THEN zone_names[zone_key] ELSE zone_key
            IN  <<"  ", display_name, ": ", _format_duration(seconds)>>]

---------------------------------------------------------------------------
(* Workout formatters *)

SummaryLines(workout) ==
    LET start_time == _format_datetime(Get(workout, "start_time"))
        duration == _format_duration(Get(workout, "duration_total_seconds"))
        distance == _format_distance(Get(workout, "distance_meters"))
        laps == GetDefault(workout, "laps", PyList(<<>>))
    IN  << <<"Workout: ", Str(GetDefault(workout, "name", PyStr("Unnamed")))>>,
           <<"  ID: ", Str(GetDefault(workout, "id", PyStr("N/A")))>>,
           <<"  Type: ", Str(GetDefault(workout, "workout_type", PyStr("Unknown")))>>,
           <<"  Date: ", start_time>>,
           <<"  Duration: ", duration>>,
           <<"  Distance: ", distance>> >>
        \o Opt(Truthy(Get(workout, "power_normalized")),
               <<"  Norm Power: ", Str(Index(workout, "power_normalized")), " W">>)
        \o Opt(Truthy(Get(workout, "training_stress_score")),
               <<"  Load: ", Str(Index(workout, "training_stress_score"))>>)
        \o Opt(Truthy(Get(workout, "intensity_factor")),
               <<"  Intensity: ", Fmt(Index(workout, "intensity_factor"), 2)>>)
        \o Opt(Truthy(laps) /\ laps.k = "list",
               <<"  Laps: ", ToString(Len(laps.items))>>)

format_workout_summary(workout) == Returned(SummaryLines(workout))

\* f"{v / divisor:.{digits}f}"
FmtDiv(v, divisor, digits) ==
    IF IsNumber(v) THEN FormatFixed(Hundredths(v), 100 * divisor, digits) ELSE RaiseText

\* One entry of a " / "-joined group: present iff the field is not None.
Part(lap, key, piecesOf(_)) ==
    IF IsNotNone(Get(lap, key)) THEN << piecesOf(Index(lap, key)) >> ELSE <<>>

LapLines(lap) ==
    LET lap_index == GetDefault(lap, "lap_index", PyStr("?"))
        lap_name == Get(lap, "name")
        header == <<"  Lap ", Str(lap_index)>>
                    \o (IF Truthy(lap_name) THEN <<" - ", Str(lap_name)>> ELSE <<>>)
        elapsed == Get(lap, "elapsed_time")
        moving == Get(lap, "moving_time")
        distance == Get(lap, "distance")
        elev_gain == Get(lap, "total_elevation_gain")
        avg_speed == Get(lap, "avg_speed")
        max_speed == Get(lap, "max_speed")
        AvgW(v) == <<"Avg ", Str(v), "W">>
        NpW(v) == <<"NP ", Str(v), "W">>
        MaxW(v) == <<"Max ", Str(v), "W">>
        AvgHr(v) == <<"Avg ", Str(v)>>
        MaxHr(v) == <<"Max ", Str(v)>>
        IfPart(v) == <<"IF ", Fmt(v, 2)>>
        ViPart(v) == <<"VI ", Fmt(v, 2)>>
        TssPart(v) == <<"TSS ", Fmt(v, 0)>>
        EfPart(v) == <<"EF ", Fmt(v, 2)>>
        PhrPart(v) == <<"P:HR ", Fmt(v, 2)>>
        power_parts == Part(lap, "avg_power", AvgW)
                         \o Part(lap, "normalized_power", NpW)
                         \o Part(lap, "max_power", MaxW)
        hr_parts == Part(lap, "avg_heart_rate", AvgHr)
                      \o Part(lap, "max_heart_rate", MaxHr)
        load_parts == Part(lap, "intensity_factor", IfPart)
                        \o Part(lap, "variability_index", ViPart)
                        \o Part(lap, "training_stress_score", TssPart)
        eff_parts == Part(lap, "efficiency_factor", EfPart)
                       \o Part(lap, "power_hr_ratio", PhrPart)
    IN  <<header>>
        \o Opt(IsNotNone(elapsed), <<"    Elapsed: ", _format_duration(elapsed)>>)
        \o Opt(IsNotNone(moving), <<"    Moving: ", _format_duration(moving)>>)
        \o Opt(IsNotNone(distance), <<"    Distance: ", _format_distance(distance)>>)
        \o Opt(IsNotNone(elev_gain), <<"    Elevation Gain: ", Fmt(elev_gain, 0), " m">>)
        \o Opt(IsNotNone(avg_speed), <<"    Avg Speed: ", Fmt(avg_speed, 1), " m/s">>)
        \o Opt(IsNotNone(max_speed), <<"    Max Speed: ", Fmt(max_speed, 1), " m/s">>)
        \o Opt(power_parts # <<>>, <<"    Power: ">> \o JoinParts(power_parts, " / "))
        \o Opt(IsNotNone(Get(lap, "watts_per_kg")),
               <<"    W/kg: ", Fmt(Index(lap, "watts_per_kg"), 2)>>)
        \o Opt(IsNotNone(Get(lap, "avg_cadence")),
               <<"    Cadence: ", Str(Index(lap, "avg_cadence")), " rpm">>)
        \o Opt(hr_parts # <<>>, <<"    HR: ">> \o JoinParts(hr_parts, " / ") \o <<" bpm">>)
        \o Opt(load_parts # <<>>, <<"    Load: ">> \o JoinParts(load_parts, " / "))
        \o Opt(eff_parts # <<>>, <<"    Efficiency: ">> \o JoinParts(eff_parts, " / "))
        \o Opt(IsNotNone(Get(lap, "vam")),
               <<"    VAM: ", Fmt(Index(lap, "vam"), 0), " m/h">>)
        \o Opt(IsNotNone(Get(lap, "work_joules")),
               <<"    Work: ", FmtDiv(Index(lap, "work_joules"), 1000, 1), " kJ">>)
        \o Opt(IsNotNone(Get(lap, "calories")),
               <<"    Calories: ", Str(Index(lap, "calories"))>>)

format_workout_lap(lap) == Returned(LapLines(lap))

\* The fields a lap dict may hold.
LapFields ==
    {"lap_index", "name", "elapsed_time", "moving_time", "distance",
     "total_elevation_gain", "avg_speed", "max_speed", "avg_power",
     "normalized_power", "max_power", "watts_per_kg", "avg_cadence",
     "avg_heart_rate", "max_heart_rate", "intensity_factor", "variability_index",
     "training_stress_score", "efficiency_factor", "power_hr_ratio", "vam",
     "work_joules", "calories"}

\* isinstance(lap, dict) for an element of the lap list.
IsLapDict(x) == DOMAIN x = LapFields

\* The (min, avg, max, label) rows of core_fields.
CoreFields ==
    << <<"min_core_temperature", "avg_core_temperature", "max_core_temperature",
         "Core Temp">>,
       <<"min_skin_temperature", "avg_skin_temperature", "max_skin_temperature",
         "Skin Temp">>,
       <<"min_heat_strain_index", "avg_heat_strain_index", "max_heat_strain_index",
         "Heat Strain">> >>

\* "strain" in min_key
HasStrain(min_key) == min_key = "min_heat_strain_index"

\* The unit of the temperature rows as the source file holds it: a space,
\* U+00C2, U+00B0 and C.  A character outside ASCII is written as its
\* \uXXXX escape.
DegreesCelsius == " \\u00c2\\u00b0C"

CoreStats(workout) ==
    Flatten([i \in 1..Len(CoreFields) |->
        LET min_val == Get(workout, CoreFields[i][1])
            avg_val == Get(workout, CoreFields[i][2])
            max_val == Get(workout, CoreFields[i][3])
            label == CoreFields[i][4]
            min_s == IF IsNotNone(min_val) THEN Fmt(min_val, 1) ELSE "N/A"
            avg_s == IF IsNotNone(avg_val) THEN Fmt(avg_val, 1) ELSE "N/A"
            max_s == IF IsNotNone(max_val) THEN Fmt(max_val, 1) ELSE "N/A"
            unit == IF HasStrain(CoreFields[i][1]) THEN " Heat Strain Index"
                    ELSE DegreesCelsius
        IN  Opt(IsNotNone(min_val) \/ IsNotNone(avg_val) \/ IsNotNone(max_val),
                <<"  ", label, ": ", min_s, " / ", avg_s, " / ", max_s, unit,
                  " (min/avg/max)">>)])

Blank == <<"">>

\* A zone section: its lines and a blank line, or nothing.
ZoneSection(zone_lines) == IF zone_lines # <<>> THEN zone_lines \o <<Blank>> ELSE <<>>

\* The curve section rendered by iterating over the mapping, in its insertion
\* order, instead of over POWER_DURATION_BENCHMARKS.
CurveLinesInsertionOrder(workout) ==
    LET power_duration_curve == Get(workout, "power_duration_curve")
    IN  IF Truthy(power_duration_curve) /\ power_duration_curve.k = "dict"
        THEN << <<"Power Duration Curve:">> >>
             \o Flatten([i \in 1..Len(power_duration_curve.items) |->
                  LET duration == power_duration_curve.items[i][1]
                  IN  IF \E b \in 1..Len(POWER_DURATION_BENCHMARKS) :
                             POWER_DURATION_BENCHMARKS[b] = duration
                      THEN << <<"  ", duration, ": ",
                                Str(power_duration_curve.items[i][2]), " W">> >>
                      ELSE <<>>])
             \o <<Blank>>
        ELSE <<>>

CurveLines(workout) ==
    LET power_duration_curve == Get(workout, "power_duration_curve")
    IN  IF Truthy(power_duration_curve) /\ power_duration_curve.k = "dict"
        THEN << <<"Power Duration Curve:">> >>
             \o Flatten([i \in 1..Len(POWER_DURATION_BENCHMARKS) |->
                  LET duration == POWER_DURATION_BENCHMARKS[i]
                  IN  IF DictHas(power_duration_curve, duration)
                      THEN << <<"  ", duration, ": ",
                                Str(DictGet(power_duration_curve, duration)), " W">> >>
                      ELSE <<>>])
             \o <<Blank>>
        ELSE <<>>

\* The lap block of the details that stops one lap short of the list's end.
DetailsLapLinesOneShort(workout) ==
    LET laps == GetDefault(workout, "laps", PyList(<<>>))
    IN  IF Truthy(laps) /\ laps.k = "list"
        THEN <<Blank, <<"Laps (", ToString(Len(laps.items)), "):">> >>
             \o Flatten([i \in 1..(Len(laps.items) - 1) |->
                  IF IsLapDict(laps.items[i]) THEN LapLines(laps.items[i]) ELSE <<>>])
        ELSE <<>>

DetailsLapLines(workout) ==
    LET laps == GetDefault(workout, "laps", PyList(<<>>))
    IN  IF Truthy(laps) /\ laps.k = "list"
        THEN <<Blank, <<"Laps (", ToString(Len(laps.items)), "):">> >>
             \o Flatten([i \in 1..Len(laps.items) |->
                  IF IsLapDict(laps.items[i]) THEN LapLines(laps.items[i]) ELSE <<>>])
        ELSE <<>>

DetailsLines(workout) ==
    LET V(key) == _get_value(workout, key, "N/A")
    IN  << <<"Workout Details:">>, Blank,
           <<"General Information:">>,
           <<"  ID: ", Str(GetDefault(workout, "id", PyStr("N/A")))>>,
           <<"  Name: ", Str(GetDefault(workout, "name", PyStr("Unnamed")))>>,
           <<"  Type: ", Str(GetDefault(workout, "workout_type", PyStr("Unknown")))>>,
           <<"  Status: ", Str(GetDefault(workout, "status", PyStr("N/A")))>>,
           <<"  Start Time: ", _format_datetime(Get(workout, "start_time"))>>,
           <<"  End Time: ", _format_datetime(Get(workout, "end_time"))>> >>
        \o Opt(Truthy(Get(workout, "description")),
               <<"  Description: ", Str(Index(workout, "description"))>>)
        \o << Blank,
              <<"Duration:">>,
              <<"  Total: ", _format_duration(Get(workout, "duration_total_seconds"))>>,
              <<"  Active: ", _format_duration(Get(workout, "duration_active_seconds"))>>,
              <<"  Paused: ", _format_duration(Get(workout, "duration_paused_seconds"))>>,
              Blank,
              <<"Distance & Elevation:">>,
              <<"  Distance: ", _format_distance(Get(workout, "distance_meters"))>>,
              <<"  Elevation Gain: ", V("elevation_gain"), " m">>,
              <<"  Elevation Loss: ", V("elevation_loss"), " m">>,
              Blank,
              <<"Speed:">>,
              <<"  Average Speed: ", V("speed_average"), " m/s">>,
              <<"  Max Speed: ", V("speed_max"), " m/s">>,
              Blank,
              <<"Power:">>,
              <<"  Average Power: ", V("power_average"), " W">>,
              <<"  Max Power: ", V("power_max"), " W">>,
              <<"  Norm Power: ", V("power_normalized"), " W">>,
              <<"  Estimated FTP: ", V("estimated_ftp"), " W">>,
              <<"  Intensity: ", V("intensity_factor")>>,
              <<"  Variability Index (VI): ", V("variability_index")>>,
              <<"  L/R Balance: ", V("left_right_balance")>>,
              Blank >>
        \o CurveLines(workout)
        \o << <<"Heart Rate:">>,
              <<"  Average HR: ", V("heart_rate_average"), " bpm">>,
              <<"  Max HR: ", V("heart_rate_max"), " bpm">>,
              <<"  HR Recovery: ", V("best_vagal_rebound"), " bpm">>,
              Blank,
              <<"Training Metrics:">>,
              <<"  Load: ", V("training_stress_score")>>,
              <<"  Efficiency Factor: ", V("efficiency_factor")>>,
              <<"  Estimated VO2max: ", V("estimated_vo2max")>>,
              <<"  Power:HR Ratio: ", V("power_hr_ratio")>>,
              <<"  Cadence: ", V("cadence_average"), " rpm">>,
              Blank >>
        \o (IF IsNotNone(Get(workout, "cardiac_drift"))
               \/ IsNotNone(Get(workout, "power_fade"))
            THEN << <<"Decoupling:">> >>
                 \o Opt(IsNotNone(Get(workout, "cardiac_drift")),
                        <<"  Cardiac Drift: ",
                          _format_percentage(Index(workout, "cardiac_drift"))>>)
                 \o Opt(IsNotNone(Get(workout, "power_fade")),
                        <<"  Power Fade: ",
                          _format_percentage(Index(workout, "power_fade"))>>)
                 \o <<Blank>>
            ELSE <<>>)
        \o << <<"Energy:">>,
              <<"  Calories: ", V("calories")>>,
              <<"  Work (Joules): ", V("work_joules")>>,
              <<"  Carb Intake: ", V("carbohydrate_intake"), " g">>,
              <<"  Carb Used: ", V("carbohydrate_used"), " g">>,
              Blank >>
        \o (IF Truthy(Get(workout, "feel")) \/ Truthy(Get(workout, "perceived_exertion"))
            THEN << <<"Subjective:">> >>
                 \o Opt(Truthy(Get(workout, "feel")),
                        <<"  Feel: ", Str(Index(workout, "feel"))>>)
                 \o Opt(Truthy(Get(workout, "perceived_exertion")),
                        <<"  RPE: ", Str(Index(workout, "perceived_exertion")), "/10">>)
                 \o <<Blank>>
            ELSE <<>>)
        \o ZoneSection(_format_time_in_zone(Get(workout, "time_in_hr_zone"),
                                            "Heart Rate Zones", HR_ZONE_NAMES))
        \o ZoneSection(_format_time_in_zone(Get(workout, "time_in_power_zone"),
                                            "Power Zones", POWER_ZONE_NAMES))
        \o ZoneSection(_format_time_in_zone(Get(workout, "time_in_temperature_zone"),
                                            "Temperature Zones", TEMPERATURE_ZONE_NAMES))
        \o ZoneSection(_format_time_in_zone(Get(workout, "time_in_core_temperature_zone"),
                                            "Core Temperature Zones",
                                            CORE_TEMPERATURE_ZONE_NAMES))
        \o ZoneSection(_format_time_in_zone(Get(workout, "time_in_skin_temperature_zone"),
                                            "Skin Temperature Zones",
                                            SKIN_TEMPERATURE_ZONE_NAMES))
        \o ZoneSection(_format_time_in_zone(Get(workout, "time_in_heat_strain_zone"),
                                            "Heat Strain Zones", HEAT_STRAIN_ZONE_NAMES))
        \o (IF CoreStats(workout) # <<>>
            THEN << <<"CORE Sensor:">> >> \o CoreStats(workout) \o <<Blank>>
            ELSE <<>>)
        \o (IF Truthy(Get(workout, "notes"))
            THEN << <<"Notes: ", Str(Index(workout, "notes"))>>, Blank >>
            ELSE <<>>)
        \o << <<"Source:">>,
              <<"  Source: ", V("source")>> >>
        \o Opt(Truthy(Get(workout, "device_name")),
               <<"  Device: ", Str(Index(workout, "device_name"))>>)
        \o Opt(Truthy(Get(workout, "time_zone")),
               <<"  Time Zone: ", Str(Index(workout, "time_zone"))>>)
        \o << <<"  Created: ", _format_datetime(Get(workout, "created_at"))>>,
              <<"  Updated: ", _format_datetime(Get(workout, "updated_at"))>> >>
        \o DetailsLapLines(workout)

\* The details with the lap block rendered first, ahead of the other sections.
FormatWorkoutDetailsLapsFirst(workout) ==
    LET all == DetailsLines(workout)
        laps == DetailsLapLines(workout)
    IN  Returned(laps \o SubSeq(all, 1, Len(all) - Len(laps)))

format_workout_details(workout) == Returned(DetailsLines(workout))

---------------------------------------------------------------------------
(* Wellness formatter *)

\* The header of a section appended whether or not it has lines.
SectionAlways(title, body) == << <<title>> >> \o body \o << <<"">> >>

\* A titled section and a blank line, or nothing when it has no lines.
Section(title, body) ==
    IF body # <<>> THEN << <<title>> >> \o body \o <<Blank>> ELSE <<>>

\* A line for a field that is not None.
Present(d, key) == IsNotNone(Get(d, key))

BodyMetrics(entry) ==
    Opt(Present(entry, "weight_kg"),
        <<"  Weight: ", Fmt(Index(entry, "weight_kg"), 1), " kg">>)
    \o Opt(Present(entry, "body_fat_percentage"),
           <<"  Body Fat: ", Fmt(Index(entry, "body_fat_percentage"), 1), "%">>)
    \o Opt(Present(entry, "hydration_kg"),
           <<"  Hydration: ", Fmt(Index(entry, "hydration_kg"), 1), " kg">>)

RecoveryMetrics(entry) ==
    LET hrv_score == _calculate_hrv_score(Get(entry, "hrv_rmssd"))
    IN  Opt(Present(entry, "sleep_hours"),
            <<"  Sleep: ", Fmt(Index(entry, "sleep_hours"), 1), " hours">>)
        \o Opt(Present(entry, "resting_hr"),
               <<"  Resting HR: ", Str(Index(entry, "resting_hr")), " bpm">>)
        \o Opt(IsNotNone(hrv_score), <<"  HRV Score: ", Str(hrv_score)>>)
        \o Opt(Present(entry, "readiness_score"),
               <<"  Readiness Score: ", Str(Index(entry, "readiness_score"))>>)
        \o Opt(Present(entry, "vo2max"),
               <<"  VO2max: ", Fmt(Index(entry, "vo2max"), 1), " ml/kg/min">>)

Baselines(entry) ==
    LET hrv_baseline_score == _calculate_hrv_score(Get(entry, "hrv_rmssd_baseline"))
    IN  Opt(IsNotNone(hrv_baseline_score),
            <<"  HRV Score Baseline: ", Str(hrv_baseline_score)>>)
        \o Opt(Present(entry, "resting_hr_baseline"),
               <<"  Resting HR Baseline: ",
                 Fmt(Index(entry, "resting_hr_baseline"), 1), " bpm">>)
        \o Opt(Present(entry, "sleep_baseline"),
               <<"  Sleep Baseline: ", Fmt(Index(entry, "sleep_baseline"), 1),
                 " hours">>)
        \o Opt(Present(entry, "hydration_baseline"),
               <<"  Hydration Baseline: ",
                 Fmt(Index(entry, "hydration_baseline"), 1), "%">>)
        \o Opt(Present(entry, "vo2max_baseline"),
               <<"  VO2max Baseline: ", Fmt(Index(entry, "vo2max_baseline"), 1),
                 " ml/kg/min">>)

WellnessLines(entry) ==
    LET date_value == GetDefault(entry, "date", GetDefault(entry, "id", PyStr("N/A")))
    IN  << <<"Wellness Entry:">>,
           <<"  Date: ", Str(date_value)>>,
           <<"  ID: ", Str(GetDefault(entry, "id", PyStr("N/A")))>>,
           Blank >>
        \o Section("Body Metrics:", BodyMetrics(entry))
        \o Section("Recovery Metrics:", RecoveryMetrics(entry))
        \o Section("7-Day Baselines:", Baselines(entry))

format_wellness_entry(entry) == Returned(WellnessLines(entry))

---------------------------------------------------------------------------
(* Event formatters *)

\* description[:100] that keeps one character more.
SliceOneMore(v, n) ==
    IF v.k = "str" THEN SubSeq(v.s, 1, IF Len(v.s) < n + 1 THEN Len(v.s) ELSE n + 1)
    ELSE RaiseText

\* len(v) and v[:n] of a str value; TypeError on a value with neither.
PyLen(v) == IF v.k = "str" THEN Len(v.s) ELSE -1
Slice(v, n) == IF v.k = "str" THEN SubSeq(v.s, 1, IF Len(v.s) < n THEN Len(v.s) ELSE n)
               ELSE RaiseText

DescriptionLimit == 100

EventSummaryLines(event) ==
    LET event_date == _format_datetime(Get(event, "event_date"))
        description == Index(event, "description")
        desc == IF PyLen(description) < 0 THEN RaiseText
                ELSE IF PyLen(description) > DescriptionLimit
                THEN Slice(description, DescriptionLimit) \o "..."
                ELSE Str(description)
    IN  << <<"Event: ", Str(GetDefault(event, "name", PyStr("Unnamed")))>>,
           <<"  ID: ", Str(GetDefault(event, "id", PyStr("N/A")))>>,
           <<"  Date: ", event_date>>,
           <<"  Type: ", Str(GetDefault(event, "event_type", PyStr("Unknown")))>>,
           <<"  Status: ", Str(GetDefault(event, "status", PyStr("N/A")))>> >>
        \o Opt(Truthy(Get(event, "location")),
               <<"  Location: ", Str(Index(event, "location"))>>)
        \o Opt(Truthy(Get(event, "distance_km")),
               <<"  Distance: ", Str(Index(event, "distance_km")), " km">>)
        \o Opt(Truthy(Get(event, "description")), <<"  Description: ", desc>>)

format_event_summary(event) == Returned(EventSummaryLines(event))

YesNo(v) == IF Truthy(v) THEN "Yes" ELSE "No"

\* The settings tested by truth value, as the other sections test theirs.
EventSettingsByTruth(event) ==
    Opt(Truthy(Get(event, "auto_calculate_intensity")),
        <<"  Auto Calculate Intensity: ",
          YesNo(Index(event, "auto_calculate_intensity"))>>)
    \o Opt(Truthy(Get(event, "include_drafting")),
           <<"  Include Drafting: ", YesNo(Index(event, "include_drafting"))>>)

EventSettings(event) ==
    Opt(Present(event, "auto_calculate_intensity"),
        <<"  Auto Calculate Intensity: ",
          YesNo(Index(event, "auto_calculate_intensity"))>>)
    \o Opt(Present(event, "include_drafting"),
           <<"  Include Drafting: ", YesNo(Index(event, "include_drafting"))>>)

EventDetailsLines(event) ==
    LET T(key) == Truthy(Get(event, key))
        course_info ==
            Opt(T("distance_km"),
                <<"  Distance: ", Str(Index(event, "distance_km")), " km">>)
            \o Opt(T("elevation_gain_m"),
                   <<"  Elevation Gain: ", Str(Index(event, "elevation_gain_m")), " m">>)
            \o Opt(T("duration_minutes"),
                   <<"  Duration: ", Str(Index(event, "duration_minutes")), " min">>)
        targets ==
            Opt(T("target_tss"), <<"  Target TSS: ", Str(Index(event, "target_tss"))>>)
            \o Opt(T("target_intensity_factor"),
                   <<"  Target IF: ", Fmt(Index(event, "target_intensity_factor"), 2)>>)
            \o Opt(T("target_power_watts"),
                   <<"  Target Power: ", Str(Index(event, "target_power_watts")), " W">>)
            \o Opt(T("estimated_calories"),
                   <<"  Est. Calories: ", Str(Index(event, "estimated_calories"))>>)
            \o Opt(T("estimated_carbs"),
                   <<"  Est. Carbs: ", Str(Index(event, "estimated_carbs")), " g">>)
        links ==
            Opt(T("event_website"),
                <<"  Website: ", Str(Index(event, "event_website"))>>)
            \o Opt(T("registration_url"),
                   <<"  Registration: ", Str(Index(event, "registration_url"))>>)
            \o Opt(T("results_url"), <<"  Results: ", Str(Index(event, "results_url"))>>)
    IN  << <<"Event Details:">>, Blank,
           <<"General Information:">>,
           <<"  Name: ", Str(GetDefault(event, "name", PyStr("Unnamed")))>>,
           <<"  ID: ", Str(GetDefault(event, "id", PyStr("N/A")))>>,
           <<"  Date: ", _format_datetime(Get(event, "event_date"))>>,
           <<"  Type: ", Str(GetDefault(event, "event_type", PyStr("Unknown")))>>,
           <<"  Category: ", _get_value(event, "category", "N/A")>>,
           <<"  Status: ", Str(GetDefault(event, "status", PyStr("N/A")))>> >>
        \o Opt(T("location"), <<"  Location: ", Str(Index(event, "location"))>>)
        \o Opt(T("description"), <<"  Description: ", Str(Index(event, "description"))>>)
        \o <<Blank>>
        \o Section("Course Details:", course_info)
        \o Section("Targets & Estimates:", targets)
        \o Section("Settings:", EventSettings(event))
        \o Section("Links:", links)
        \o (IF T("notes") THEN << <<"Notes: ", Str(Index(event, "notes"))>>, Blank >>
            ELSE <<>>)
        \o << <<"Metadata:">> >>
        \o Opt(T("workout_id"), <<"  Linked Workout ID: ", Str(Index(event, "workout_id"))>>)
        \o << <<"  Created: ", _format_datetime(Get(event, "created_at"))>>,
              <<"  Updated: ", _format_datetime(Get(event, "updated_at"))>> >>

format_event_details(event) == Returned(EventDetailsLines(event))

---------------------------------------------------------------------------
(* The records the formatters are applied to.  Every field of a record is   *)
(* absent, None, or a value of the type the API documents for it.  A record *)
(* of the model is a base record (no key at all, every key None, or a       *)
(* typical record) in which one field, or the fields of one group that the  *)
(* code reads together, take every combination of their values.             *)

MaxSeconds == 7325
MaxMeters == 1100
MaxRmssd == 120
MaxLaps == 3

LongDescription ==
    "0123456789012345678901234567890123456789012345678901234567890123456789"
      \o "0123456789012345678901234567890123456789012345678901234567890123456789"
      \o "0123456789"
Description100 == SubSeq(LongDescription, 1, 100)
Description101 == SubSeq(LongDescription, 1, 101)

NumValues == {PyInt(0), PyInt(200), PyFloat(0), PyFloat(85), PyFloat(-120)}
StrValues == {PyStr(""), PyStr("Morning Ride")}
IdValues == {PyInt(0), PyInt(1), PyStr("a1b2")}
TimeValues == {PyStr(""), PyStr("2024-04-15T08:00:00Z"), PyStr("2024-01-01"),
               PyStr("yesterday")}
BoolValues == {PyBool(TRUE), PyBool(FALSE)}
TextValues == {PyStr(""), PyStr("Annual spring cycling race"), PyStr(Description100),
               PyStr(Description101), PyStr(LongDescription)}
RmssdValues == {PyInt(0), PyInt(-5), PyInt(1), PyInt(45), PyFloat(4550), PyFloat(0)}

\* A zone map of a taxonomy whose first codes are k1 and k2.
ZoneValues(k1, k2) ==
    {PyDict(<<>>),
     PyDict(<< <<k1, PyInt(120)>>, <<k2, PyFloat(120050)>> >>),
     PyDict(<< <<k2, PyInt(3725)>>, <<"ZX", None>>, <<k1, PyInt(0)>> >>)}

CurveValues ==
    {PyDict(<<>>),
     PyDict(<< <<"5min", PyInt(300)>>, <<"1s", PyInt(900)>> >>),
     PyDict(<< <<"1s", PyInt(900)>>, <<"20min", PyFloat(25050)>>, <<"5h", None>> >>),
     PyDict(<< <<"7min", PyInt(280)>> >>)}

\* The sample laps: a full lap, a lap with the required fields only, a lap
\* with the average power only.
SampleLap(i) ==
    [f \in LapFields |->
        CASE i = 1 ->
               (CASE f = "lap_index" -> PyInt(1)
                  [] f = "name" -> PyStr("Interval 1")
                  [] f = "elapsed_time" -> PyInt(300)
                  [] f = "moving_time" -> PyInt(295)
                  [] f = "distance" -> PyFloat(350000)
                  [] f = "total_elevation_gain" -> PyFloat(4500)
                  [] f = "avg_speed" -> PyFloat(1170)
                  [] f = "max_speed" -> PyFloat(1420)
                  [] f = "avg_power" -> PyInt(250)
                  [] f = "normalized_power" -> PyInt(255)
                  [] f = "max_power" -> PyInt(380)
                  [] f = "watts_per_kg" -> PyFloat(357)
                  [] f = "avg_cadence" -> PyInt(95)
                  [] f = "avg_heart_rate" -> PyInt(160)
                  [] f = "max_heart_rate" -> PyInt(172)
                  [] f = "intensity_factor" -> PyFloat(92)
                  [] f = "variability_index" -> PyFloat(102)
                  [] f = "training_stress_score" -> PyFloat(1200)
                  [] f = "efficiency_factor" -> PyFloat(156)
                  [] f = "power_hr_ratio" -> PyFloat(156)
                  [] f = "vam" -> PyFloat(54000)
                  [] f = "work_joules" -> PyInt(75000)
                  [] f = "calories" -> PyInt(85))
          [] i = 2 ->
               (CASE f = "lap_index" -> PyInt(5)
                  [] f = "elapsed_time" -> PyInt(120)
                  [] OTHER -> Absent)
          [] OTHER ->
               (CASE f = "lap_index" -> PyInt(i)
                  [] f = "elapsed_time" -> PyInt(300)
                  [] f = "avg_power" -> PyInt(200)
                  [] f = "name" -> None
                  [] OTHER -> Absent)]

\* The lap lists of up to MaxLaps laps.
LapsValues == {PyList([i \in 1..n |-> SampleLap(i)]) : n \in 0..MaxLaps}

WorkoutStrFields ==
    {"name", "workout_type", "status", "description", "notes", "source",
     "device_name", "time_zone"}
WorkoutTimeFields == {"start_time", "end_time", "created_at", "updated_at"}
WorkoutZoneFields ==
    {"time_in_hr_zone", "time_in_power_zone", "time_in_temperature_zone",
     "time_in_core_temperature_zone", "time_in_skin_temperature_zone",
     "time_in_heat_strain_zone"}
WorkoutSensorFields ==
    {CoreFields[i][j] : i \in 1..3, j \in 1..3}
WorkoutNumFields ==
    {"duration_total_seconds", "duration_active_seconds", "duration_paused_seconds",
     "distance_meters", "elevation_gain", "elevation_loss", "speed_average",
     "speed_max", "power_average", "power_max", "power_normalized", "estimated_ftp",
     "intensity_factor", "variability_index", "left_right_balance",
     "heart_rate_average", "heart_rate_max", "best_vagal_rebound",
     "training_stress_score", "efficiency_factor", "estimated_vo2max",
     "power_hr_ratio", "cadence_average", "cardiac_drift", "power_fade", "calories",
     "work_joules", "carbohydrate_intake", "carbohydrate_used", "feel",
     "perceived_exertion"} \cup WorkoutSensorFields
WorkoutFields ==
    {"id", "power_duration_curve", "laps"} \cup WorkoutStrFields
      \cup WorkoutTimeFields \cup WorkoutZoneFields \cup WorkoutNumFields

\* The values of the documented type of a workout field.
WorkoutValues(f) ==
    CASE f = "id" -> IdValues
      [] f = "power_duration_curve" -> CurveValues
      [] f = "laps" -> LapsValues
      [] f \in WorkoutStrFields -> StrValues
      [] f \in WorkoutTimeFields -> TimeValues
      [] f = "time_in_hr_zone" -> ZoneValues("Z1", "Z3")
      [] f = "time_in_power_zone" -> ZoneValues("Z2", "SS")
      [] f = "time_in_temperature_zone" -> ZoneValues("z4_mild", "z5_warm")
      [] f = "time_in_core_temperature_zone" -> ZoneValues("z2_normal", "z3_moderate")
      [] f = "time_in_skin_temperature_zone" -> ZoneValues("z4_warm", "z5_hot")
      [] f = "time_in_heat_strain_zone" -> ZoneValues("z1_no_strain", "z2_moderate")
      [] OTHER -> NumValues

WellnessNumFields ==
    {"weight_kg", "body_fat_percentage", "hydration_kg", "sleep_hours", "resting_hr",
     "readiness_score", "vo2max", "resting_hr_baseline", "sleep_baseline",
     "hydration_baseline", "vo2max_baseline"}
WellnessFields == {"id", "date", "hrv_rmssd", "hrv_rmssd_baseline"} \cup WellnessNumFields

WellnessValues(f) ==
    CASE f = "id" -> IdValues
      [] f = "date" -> TimeValues
      [] f \in {"hrv_rmssd", "hrv_rmssd_baseline"} -> RmssdValues
      [] OTHER -> NumValues

EventStrFields ==
    {"name", "event_type", "category", "status", "location", "event_website",
     "registration_url", "results_url", "notes"}
EventTimeFields == {"event_date", "created_at", "updated_at"}
EventBoolFields == {"auto_calculate_intensity", "include_drafting"}
EventNumFields ==
    {"distance_km", "elevation_gain_m", "duration_minutes", "target_tss",
     "target_intensity_factor", "target_power_watts", "estimated_calories",
     "estimated_carbs"}
EventFields ==
    {"id", "workout_id", "description"} \cup EventStrFields \cup EventTimeFields
      \cup EventBoolFields \cup EventNumFields

EventValues(f) ==
    CASE f \in {"id", "workout_id"} -> IdValues
      [] f = "description" -> TextValues
      [] f \in EventStrFields -> StrValues
      [] f \in EventTimeFields -> TimeValues
      [] f \in EventBoolFields -> BoolValues
      [] OTHER -> NumValues

LapValues(f) ==
    CASE f = "lap_index" -> IdValues
      [] f = "name" -> StrValues
      [] OTHER -> NumValues

WorkoutTypical(f) ==
    CASE f = "id" -> PyInt(1)
      [] f = "power_duration_curve" ->
           PyDict(<< <<"5min", PyInt(300)>>, <<"1s", PyInt(900)>> >>)
      [] f = "laps" -> PyList(<<SampleLap(1)>>)
      [] f \in WorkoutStrFields -> PyStr("Morning Ride")
      [] f \in WorkoutTimeFields -> PyStr("2024-04-15T08:00:00Z")
      [] f \in WorkoutZoneFields -> PyDict(<< <<"Z2", PyInt(800)>> >>)
      [] OTHER -> PyInt(200)

LapTypical(f) == SampleLap(1)[f]

WellnessTypical(f) ==
    CASE f = "id" -> PyInt(1)
      [] f = "date" -> PyStr("2024-01-01")
      [] f \in {"hrv_rmssd", "hrv_rmssd_baseline"} -> PyInt(45)
      [] OTHER -> PyInt(200)

EventTypical(f) ==
    CASE f \in {"id", "workout_id"} -> PyInt(1)
      [] f = "description" -> PyStr("Annual spring cycling race")
      [] f \in EventStrFields -> PyStr("Morning Ride")
      [] f \in EventTimeFields -> PyStr("2024-04-15T08:00:00Z")
      [] f \in EventBoolFields -> PyBool(TRUE)
      [] OTHER -> PyInt(200)

\* The groups of fields that one section or one line group of the code reads.
WorkoutGroups ==
    {{"name", "id", "workout_type", "status"},
     {"power_normalized", "training_stress_score", "intensity_factor", "laps"},
     {"cardiac_drift", "power_fade"},
     {"feel", "perceived_exertion"}}
      \cup {{CoreFields[i][j] : j \in 1..3} : i \in 1..3}

WellnessGroups ==
    {{"weight_kg", "body_fat_percentage", "hydration_kg"},
     {"sleep_hours", "resting_hr", "hrv_rmssd", "readiness_score", "vo2max"},
     {"hrv_rmssd_baseline", "resting_hr_baseline", "sleep_baseline",
      "hydration_baseline", "vo2max_baseline"}}

EventGroups ==
    {{"name", "id", "event_type", "status"},
     {"location", "distance_km", "description"},
     {"distance_km", "elevation_gain_m", "duration_minutes"},
     {"target_tss", "target_intensity_factor", "target_power_watts",
      "estimated_calories", "estimated_carbs"},
     {"auto_calculate_intensity", "include_drafting"},
     {"event_website", "registration_url", "results_url"}}

LapGroups ==
    {{"lap_index", "name"},
     {"avg_power", "normalized_power", "max_power"},
     {"avg_heart_rate", "max_heart_rate"},
     {"intensity_factor", "variability_index", "training_stress_score"},
     {"efficiency_factor", "power_hr_ratio"}}

\* Every value a field may take, and the values it takes inside a group.
Full(values(_), f) == {Absent, None} \cup values(f)
Short(values(_), f) == {Absent, None} \cup {v \in values(f) : v.k # "float"}

VaryOne(base, values(_)) ==
    UNION {{[base EXCEPT ![f] = v] : v \in Full(values, f)} : f \in DOMAIN base}

VaryGroup(base, values(_), group) ==
    LET all == UNION {Short(values, f) : f \in group}
        choices == {c \in [group -> all] : \A f \in group : c[f] \in Short(values, f)}
    IN  {[f \in DOMAIN base |-> IF f \in group THEN c[f] ELSE base[f]] : c \in choices}

Bases(fields, typical(_)) ==
    {[f \in fields |-> Absent], [f \in fields |-> None], [f \in fields |-> typical(f)]}

Records(fields, values(_), typical(_), groups) ==
    UNION {VaryOne(base, values)
             \cup UNION {VaryGroup(base, values, g) : g \in groups}
           : base \in Bases(fields, typical)}

WorkoutRecords == Records(WorkoutFields, WorkoutValues, WorkoutTypical, WorkoutGroups)
WellnessRecords == Records(WellnessFields, WellnessValues, WellnessTypical, WellnessGroups)
EventRecords == Records(EventFields, EventValues, EventTypical, EventGroups)
LapRecords == Records(LapFields, LapValues, LapTypical, LapGroups)

\* The arguments of the scalar formatters.  A kilometre text whose third
\* decimal is an exact 5 is left out: the digit Python prints there depends
\* on the binary double nearest to meters / 1000.
SecondsValues ==
    {None} \cup {PyInt(n) : n \in -65..MaxSeconds}
           \cup {PyFloat(100 * n + 50) : n \in -65..MaxSeconds}
MetersValues ==
    {None} \cup {PyInt(n) : n \in {m \in -5..MaxMeters : m < 1000 \/ m % 10 # 5}}
           \cup {PyInt(1234), PyInt(3500), PyInt(12000)}
           \cup {PyFloat(h) : h \in 99000..100100}
RmssdArguments ==
    {None} \cup {PyInt(n) : n \in -2..MaxRmssd}
           \cup {PyFloat(50 * n) : n \in -2..(2 * MaxRmssd)}

---------------------------------------------------------------------------
(* The state machine: a record is constructed, then the formatters of its   *)
(* sort are called on it, any number of times, in any order.                *)

Functions ==
    {"format_workout_summary", "format_workout_details", "format_workout_lap",
     "format_wellness_entry", "format_event_summary", "format_event_details",
     "_format_duration", "_format_distance", "_calculate_hrv_score"}

NotCalled == [k |-> "notcalled"]

\* The string a scalar formatter returns, unless an exception left it.
ReturnedText(text) == IF text = RaiseText THEN Raise ELSE [k |-> "ok", text |-> text]
ReturnedValue(v) == IF v.k = "raise" THEN Raise ELSE [k |-> "ok", value |-> v]

Init ==
    /\ \/ kind = "workout" /\ rec \in WorkoutRecords
       \/ kind = "lap" /\ rec \in LapRecords
       \/ kind = "wellness" /\ rec \in WellnessRecords
       \/ kind = "event" /\ rec \in EventRecords
       \/ kind = "seconds" /\ rec \in SecondsValues
       \/ kind = "meters" /\ rec \in MetersValues
       \/ kind = "rmssd" /\ rec \in RmssdArguments
    /\ input = rec
    /\ out = [f \in Functions |-> NotCalled]
    /\ prev = [f \in Functions |-> NotCalled]

\* The call returns `result`; the formatters assign to nothing they are given.
Call(fn, result) ==
    /\ out' = [out EXCEPT ![fn] = result]
    /\ prev' = [prev EXCEPT ![fn] = out[fn]]
    /\ UNCHANGED <<kind, input, rec>>

CallWorkoutSummary ==
    kind = "workout" /\ Call("format_workout_summary", format_workout_summary(rec))

\* The lap list taken out of the record (pop) instead of read from it (get).
CallWorkoutDetailsPopsLaps ==
    /\ kind = "workout"
    /\ out' = [out EXCEPT !["format_workout_details"] = format_workout_details(rec)]
    /\ prev' = [prev EXCEPT !["format_workout_details"] = out["format_workout_details"]]
    /\ rec' = [rec EXCEPT !["laps"] = Absent]
    /\ UNCHANGED <<kind, input>>

CallWorkoutDetails ==
    kind = "workout" /\ Call("format_workout_details", format_workout_details(rec))

CallWorkoutLap ==
    kind = "lap" /\ Call("format_workout_lap", format_workout_lap(rec))

CallWellnessEntry ==
    kind = "wellness" /\ Call("format_wellness_entry", format_wellness_entry(rec))

CallEventSummary ==
    kind = "event" /\ Call("format_event_summary", format_event_summary(rec))

CallEventDetails ==
    kind = "event" /\ Call("format_event_details", format_event_details(rec))

CallFormatDuration ==
    kind = "seconds" /\ Call("_format_duration", ReturnedText(_format_duration(rec)))

CallFormatDistance ==
    kind = "meters" /\ Call("_format_distance", ReturnedText(_format_distance(rec)))

CallCalculateHrvScore ==
    kind = "rmssd"
    /\ Call("_calculate_hrv_score", ReturnedValue(_calculate_hrv_score(rec)))

Next ==
    \/ CallWorkoutSummary
    \/ CallWorkoutDetails
    \/ CallWorkoutLap
    \/ CallWellnessEntry
    \/ CallEventSummary
    \/ CallEventDetails
    \/ CallFormatDuration
    \/ CallFormatDistance
    \/ CallCalculateHrvScore

Spec == Init /\ [][Next]_vars

---------------------------------------------------------------------------
(* Properties *)

Assemblers ==
    {"format_workout_summary", "format_workout_details", "format_workout_lap",
     "format_wellness_entry", "format_event_summary", "format_event_details"}

Called(fn) == out[fn].k # "notcalled"

\* The output has a line that starts with the piece `label`.
Has(lines, label) == \E i \in 1..Len(lines) : lines[i][1] = label

\* The text of the first line that starts with `label`.
LineText(lines, label) ==
    Text(lines[CHOOSE i \in 1..Len(lines) :
                  /\ lines[i][1] = label
                  /\ \A j \in 1..(i - 1) : lines[j][1] # label])

IsNull(d, key) == d[key].k \in {"absent", "none"}

\* C1: every assembler returns a string, and never raises, on every record
\* whose fields are each absent, None or a value of the documented type.
C1_NeverRaises == \A fn \in Assemblers : Called(fn) => out[fn].k = "ok"

\* C1: format_workout_details has returned on a record that mixes an absent
\* key, a None and a present value.
C1_Witness ==
    /\ kind = "workout"
    /\ out["format_workout_details"].k = "ok"
    /\ \E f, g, h \in WorkoutFields :
          /\ rec[f].k = "absent"
          /\ rec[g].k = "none"
          /\ rec[h].k \notin {"absent", "none"}

\* The always-present header lines: function, label, field, placeholder.
HeaderLines ==
    {<<"format_workout_summary", "Workout: ", "name", "Unnamed">>,
     <<"format_workout_summary", "  ID: ", "id", "N/A">>,
     <<"format_workout_summary", "  Type: ", "workout_type", "Unknown">>,
     <<"format_workout_details", "  ID: ", "id", "N/A">>,
     <<"format_workout_details", "  Name: ", "name", "Unnamed">>,
     <<"format_workout_details", "  Type: ", "workout_type", "Unknown">>,
     <<"format_workout_details", "  Status: ", "status", "N/A">>,
     <<"format_event_summary", "Event: ", "name", "Unnamed">>,
     <<"format_event_summary", "  ID: ", "id", "N/A">>,
     <<"format_event_summary", "  Type: ", "event_type", "Unknown">>,
     <<"format_event_summary", "  Status: ", "status", "N/A">>,
     <<"format_event_details", "  Name: ", "name", "Unnamed">>,
     <<"format_event_details", "  ID: ", "id", "N/A">>,
     <<"format_event_details", "  Type: ", "event_type", "Unknown">>,
     <<"format_event_details", "  Status: ", "status", "N/A">>}

\* C2: in the header lines of the summary and details of workouts and events
\* a missing name, id, type or status is replaced by its placeholder, whether
\* the key is absent or holds None; the text "None" is never rendered.
C2_HeaderPlaceholders ==
    \A h \in HeaderLines :
        (out[h[1]].k = "ok" /\ IsNull(rec, h[3])) =>
            LineText(out[h[1]].lines, h[2]) = h[2] \o h[4]

NonNull(d, key) == ~IsNull(d, key)

\* C4: in format_workout_summary each of the Norm Power, Load and Intensity
\* lines is present iff its field is non-null, 0 included; in
\* format_event_summary the Location and Distance lines are present iff
\* location and distance_km are non-null.
C4_OptionalLinesIffNonNull ==
    /\ out["format_workout_summary"].k = "ok" =>
         LET lines == out["format_workout_summary"].lines
         IN  /\ Has(lines, "  Norm Power: ") <=> NonNull(rec, "power_normalized")
             /\ Has(lines, "  Load: ") <=> NonNull(rec, "training_stress_score")
             /\ Has(lines, "  Intensity: ") <=> NonNull(rec, "intensity_factor")
    /\ out["format_event_summary"].k = "ok" =>
         LET lines == out["format_event_summary"].lines
         IN  /\ Has(lines, "  Location: ") <=> NonNull(rec, "location")
             /\ Has(lines, "  Distance: ") <=> NonNull(rec, "distance_km")

CourseMembers == {"distance_km", "elevation_gain_m", "duration_minutes"}
TargetMembers ==
    {"target_tss", "target_intensity_factor", "target_power_watts",
     "estimated_calories", "estimated_carbs"}
LinkMembers == {"event_website", "registration_url", "results_url"}
SettingMembers == {"auto_calculate_intensity", "include_drafting"}

\* C5: in format_event_details each of Course Details, Targets & Estimates
\* and Links is present iff one of its member fields is non-null, 0 and ""
\* included; General Information and Metadata are always present.
C5_EventSectionsIffNonNull ==
    out["format_event_details"].k = "ok" =>
        LET lines == out["format_event_details"].lines
        IN  /\ Has(lines, "Course Details:") <=> \E f \in CourseMembers : NonNull(rec, f)
            /\ Has(lines, "Targets & Estimates:")
                 <=> \E f \in TargetMembers : NonNull(rec, f)
            /\ Has(lines, "Links:") <=> \E f \in LinkMembers : NonNull(rec, f)
            /\ Has(lines, "General Information:")
            /\ Has(lines, "Metadata:")

SettingLabel(f) ==
    IF f = "auto_calculate_intensity" THEN "  Auto Calculate Intensity: "
    ELSE "  Include Drafting: "

\* C6: in format_event_details a setting that is false has its line, which
\* reads No (a true one reads Yes), a setting that is absent or None has no
\* line, and the Settings section is present iff one of the two is non-null.
C6_SettingsDistinguishFalseFromAbsent ==
    out["format_event_details"].k = "ok" =>
        LET lines == out["format_event_details"].lines
        IN  /\ \A f \in SettingMembers :
                  /\ IsNull(rec, f) => ~Has(lines, SettingLabel(f))
                  /\ rec[f] = PyBool(FALSE) =>
                        /\ Has(lines, SettingLabel(f))
                        /\ LineText(lines, SettingLabel(f)) = SettingLabel(f) \o "No"
                  /\ rec[f] = PyBool(TRUE) =>
                        /\ Has(lines, SettingLabel(f))
                        /\ LineText(lines, SettingLabel(f)) = SettingLabel(f) \o "Yes"
            /\ Has(lines, "Settings:") <=> \E f \in SettingMembers : NonNull(rec, f)

\* C6: the details of an event whose only setting is an explicit false.
C6_Witness ==
    /\ kind = "event"
    /\ out["format_event_details"].k = "ok"
    /\ rec["auto_calculate_intensity"] = PyBool(FALSE)
    /\ IsNull(rec, "include_drafting")
    /\ Has(out["format_event_details"].lines, "Settings:")
    /\ LineText(out["format_event_details"].lines, "  Auto Calculate Intensity: ")
         = "  Auto Calculate Intensity: No"

BodyMembers == {"weight_kg", "body_fat_percentage", "hydration_kg"}
RecoveryMembers == {"sleep_hours", "resting_hr", "hrv_rmssd", "readiness_score", "vo2max"}
BaselineMembers ==
    {"hrv_rmssd_baseline", "resting_hr_baseline", "sleep_baseline",
     "hydration_baseline", "vo2max_baseline"}

WellnessHeader(lines) ==
    /\ Len(lines) >= 3
    /\ lines[1] = <<"Wellness Entry:">>
    /\ lines[2][1] = "  Date: "
    /\ lines[3][1] = "  ID: "

\* C7 as stated: format_wellness_entry always emits the Date/ID header, and
\* each of Body Metrics, Recovery Metrics and 7-Day Baselines is present iff
\* one of its member fields is non-null.
C7_SectionsIffMemberNonNull ==
    out["format_wellness_entry"].k = "ok" =>
        LET lines == out["format_wellness_entry"].lines
        IN  /\ WellnessHeader(lines)
            /\ Has(lines, "Body Metrics:") <=> \E f \in BodyMembers : NonNull(rec, f)
            /\ Has(lines, "Recovery Metrics:")
                 <=> \E f \in RecoveryMembers : NonNull(rec, f)
            /\ Has(lines, "7-Day Baselines:")
                 <=> \E f \in BaselineMembers : NonNull(rec, f)

\* A member field that yields a line: non-null, and for the two RMSSD fields
\* greater than 0, since a RMSSD of 0 or less has no HRV score.
YieldsLine(d, f) ==
    /\ NonNull(d, f)
    /\ f \in {"hrv_rmssd", "hrv_rmssd_baseline"} => Hundredths(d[f]) > 0

\* C7 as amended: format_wellness_entry always emits the Date/ID header, and
\* each of the three sections is present iff one of its member fields is
\* non-null, where hrv_rmssd and hrv_rmssd_baseline count only when > 0.
C7_SectionsIffMemberYieldsLine ==
    out["format_wellness_entry"].k = "ok" =>
        LET lines == out["format_wellness_entry"].lines
        IN  /\ WellnessHeader(lines)
            /\ Has(lines, "Body Metrics:") <=> \E f \in BodyMembers : YieldsLine(rec, f)
            /\ Has(lines, "Recovery Metrics:")
                 <=> \E f \in RecoveryMembers : YieldsLine(rec, f)
            /\ Has(lines, "7-Day Baselines:")
                 <=> \E f \in BaselineMembers : YieldsLine(rec, f)

\* C7: an entry whose only recovery field is hrv_rmssd = 0 was formatted,
\* with no Recovery Metrics section, and one with a sleep value was, with it.
C7_Witness ==
    /\ kind = "wellness"
    /\ out["format_wellness_entry"].k = "ok"
    /\ rec["hrv_rmssd"] = PyInt(0)
    /\ \A f \in RecoveryMembers \ {"hrv_rmssd"} : IsNull(rec, f)
    /\ ~Has(out["format_wellness_entry"].lines, "Recovery Metrics:")
    /\ \E f \in BodyMembers : NonNull(rec, f)
    /\ Has(out["format_wellness_entry"].lines, "Body Metrics:")

\* The value is a number greater than 0.
Positive(v) == IsNumber(v) /\ Hundredths(v) > 0

\* Inputs of _calculate_hrv_score with the score Python computes for them.
HrvKnownAnswers ==
    {<<PyInt(45), 76>>, <<PyInt(1), 0>>, <<PyInt(2), 14>>, <<PyInt(100), 92>>,
     <<PyInt(120), 96>>, <<PyFloat(50), -14>>, <<PyFloat(4550), 76>>,
     <<PyFloat(750), 40>>}

\* The HRV line of a wellness entry: present, with the score of the field,
\* exactly when the field is a number greater than 0.
HrvLine(lines, label, v) ==
    /\ Has(lines, label) <=> Positive(v)
    /\ Positive(v) =>
         LineText(lines, label) = label \o ToString(PyRound(MathLog(v) * 20))

\* C8: _calculate_hrv_score returns no value for a RMSSD that is None, 0 or
\* negative and round(ln(rmssd) * 20) for a RMSSD > 0 (45 gives 76);
\* format_wellness_entry emits the HRV Score line and the HRV Score Baseline
\* line exactly when the transform returns a value.
C8_HrvScore ==
    /\ (kind = "rmssd" /\ Called("_calculate_hrv_score")) =>
         LET r == out["_calculate_hrv_score"]
         IN  /\ r.k = "ok"
             /\ ~Positive(rec) => r.value = None
             /\ Positive(rec) => r.value = PyInt(PyRound(MathLog(rec) * 20))
             /\ \A a \in HrvKnownAnswers : rec = a[1] => r.value = PyInt(a[2])
    /\ out["format_wellness_entry"].k = "ok" =>
         LET lines == out["format_wellness_entry"].lines
         IN  /\ HrvLine(lines, "  HRV Score: ", Get(rec, "hrv_rmssd"))
             /\ HrvLine(lines, "  HRV Score Baseline: ", Get(rec, "hrv_rmssd_baseline"))

\* C8: the score of a RMSSD of 45 was computed and is 76.
C8_Witness ==
    /\ kind = "rmssd"
    /\ rec = PyInt(45)
    /\ out["_calculate_hrv_score"] = [k |-> "ok", value |-> PyInt(76)]

\* '{h}h {m}m {s}s' when h > 0, '{m}m {s}s' when h = 0 and m > 0, else '{s}s'.
DurationText(h, m, s) ==
    IF h > 0 THEN ToString(h) \o "h " \o ToString(m) \o "m " \o ToString(s) \o "s"
    ELSE IF m > 0 THEN ToString(m) \o "m " \o ToString(s) \o "s"
    ELSE ToString(s) \o "s"

DurationKnownAnswers ==
    {<<PyInt(0), "0s">>, <<PyInt(125), "2m 5s">>, <<PyInt(3725), "1h 2m 5s">>,
     <<PyFloat(5950), "59s">>, <<PyInt(3600), "1h 0m 0s">>, <<PyInt(60), "1m 0s">>}

EndsWith(text, suffix) ==
    /\ Len(text) >= Len(suffix)
    /\ SubSeq(text, Len(text) - Len(suffix) + 1, Len(text)) = suffix

DistanceKnownAnswers ==
    {<<PyInt(999), "999 m">>, <<PyInt(1000), "1.00 km">>, <<PyInt(3500), "3.50 km">>,
     <<PyInt(0), "0 m">>, <<PyFloat(99940), "999 m">>}

\* The form of the output of _format_distance: kilometres with two decimals
\* exactly when meters >= 1000, whole metres otherwise.
DistanceForm(t, text) ==
    /\ t >= 100000 => text = FormatFixed(t, 100000, 2) \o " km"
    /\ t < 100000 => text = FormatFixed(t, 100, 0) \o " m"
    /\ EndsWith(text, " km") <=> t >= 100000

\* C10 as stated: _format_distance renders kilometres with two decimals
\* exactly when meters >= 1000 and whole metres otherwise, so the metres form
\* never shows a value of 1000 or more.
C10_MetresFormBelow1000 ==
    (kind = "meters" /\ Called("_format_distance") /\ rec # None) =>
        LET r == out["_format_distance"]
            t == Hundredths(rec)
        IN  /\ r.k = "ok"
            /\ DistanceForm(t, r.text)
            /\ t < 100000 => RoundHalfEven(t, 100) < 1000 /\ r.text # "1000 m"
            /\ \A a \in DistanceKnownAnswers : rec = a[1] => r.text = a[2]

\* C10 as amended: _format_distance renders kilometres with two decimals
\* exactly when meters >= 1000 and whole metres, rounded, otherwise, so the
\* metres form never shows a value above 1000, and shows '1000 m' exactly for
\* 999.5 <= meters < 1000 (999 -> '999 m', 1000 -> '1.00 km',
\* 3500 -> '3.50 km').
C10_MetresFormAtMost1000 ==
    (kind = "meters" /\ Called("_format_distance") /\ rec # None) =>
        LET r == out["_format_distance"]
            t == Hundredths(rec)
        IN  /\ r.k = "ok"
            /\ DistanceForm(t, r.text)
            /\ t < 100000 => RoundHalfEven(t, 100) <= 1000
            /\ r.text = "1000 m" <=> (99950 <= t /\ t < 100000)
            /\ \A a \in DistanceKnownAnswers : rec = a[1] => r.text = a[2]

\* C10: a distance of 999.5 m was formatted, as '1000 m', and 1000 m is
\* formatted as '1.00 km'.
C10_Witness ==
    /\ kind = "meters"
    /\ rec = PyFloat(99950)
    /\ out["_format_distance"] = [k |-> "ok", text |-> "1000 m"]
    /\ _format_distance(PyInt(1000)) = "1.00 km"

---------------------------------------------------------------------------
(* Zone sections, power-duration curve, lap groups *)

\* The zone sections of format_workout_details: field, label, vocabulary.
ZoneSections ==
    {<<"time_in_hr_zone", "Heart Rate Zones", HR_ZONE_NAMES>>,
     <<"time_in_power_zone", "Power Zones", POWER_ZONE_NAMES>>,
     <<"time_in_temperature_zone", "Temperature Zones", TEMPERATURE_ZONE_NAMES>>,
     <<"time_in_core_temperature_zone", "Core Temperature Zones",
       CORE_TEMPERATURE_ZONE_NAMES>>,
     <<"time_in_skin_temperature_zone", "Skin Temperature Zones",
       SKIN_TEMPERATURE_ZONE_NAMES>>,
     <<"time_in_heat_strain_zone", "Heat Strain Zones", HEAT_STRAIN_ZONE_NAMES>>}

\* The index of the first line that starts with `label`.
FirstIndex(lines, label) ==
    CHOOSE i \in 1..Len(lines) :
        /\ lines[i][1] = label
        /\ \A j \in 1..(i - 1) : lines[j][1] # label

\* The label of a zone code: its name in the vocabulary, else the code.
ZoneName(table, code) == IF code \in DOMAIN table THEN table[code] ELSE code

\* C11: a zone mapping that is absent, None or empty yields no line and no
\* section header in format_workout_details; any other mapping yields the
\* header '{label}:' followed by exactly one indented line per entry, in
\* insertion order, labelled with the vocabulary's name or, for a code not
\* in the vocabulary, with the raw code.
C11_ZoneLines ==
    out["format_workout_details"].k = "ok" =>
        \A z \in ZoneSections :
            LET lines == out["format_workout_details"].lines
                zone_data == Get(rec, z[1])
            IN  IF IsNull(rec, z[1]) \/ zone_data.items = <<>>
                THEN /\ ~Has(lines, z[2])
                     /\ _format_time_in_zone(zone_data, z[2], z[3]) = <<>>
                ELSE /\ Has(lines, z[2])
                     /\ LET i == FirstIndex(lines, z[2])
                            n == Len(zone_data.items)
                        IN  /\ Text(lines[i]) = z[2] \o ":"
                            /\ Len(lines) > i + n
                            /\ \A j \in 1..n :
                                 /\ Len(lines[i + j]) = 4
                                 /\ lines[i + j][1] = "  "
                                 /\ lines[i + j][2]
                                      = ZoneName(z[3], zone_data.items[j][1])
                                 /\ lines[i + j][3] = ": "
                            /\ lines[i + n + 1] = Blank
                     /\ Len(_format_time_in_zone(zone_data, z[2], z[3]))
                          = 1 + Len(zone_data.items)

\* C11: the details of a workout whose heart-rate zone map holds Z3, the
\* unknown code ZX and Z1, in that order, were rendered with the three lines
\* in that order, ZX under its own code.
C11_Witness ==
    /\ kind = "workout"
    /\ out["format_workout_details"].k = "ok"
    /\ rec["time_in_hr_zone"]
         = PyDict(<< <<"Z3", PyInt(3725)>>, <<"ZX", None>>, <<"Z1", PyInt(0)>> >>)
    /\ IsNull(rec, "time_in_power_zone")
    /\ ~Has(out["format_workout_details"].lines, "Power Zones")
    /\ LET lines == out["format_workout_details"].lines
           i == FirstIndex(lines, "Heart Rate Zones")
       IN  /\ Text(lines[i + 1]) = "  Z3 Tempo: 1h 2m 5s"
           /\ Text(lines[i + 2]) = "  ZX: N/A"
           /\ Text(lines[i + 3]) = "  Z1 Recovery: 0s"
           /\ lines[i + 4] = Blank

\* The benchmark labels that are keys of the curve, in canonical order.
PresentBenchmarks(curve) ==
    LET IsKey(duration) == \E i \in 1..Len(curve.items) : curve.items[i][1] = duration
    IN  SelectSeq(POWER_DURATION_BENCHMARKS, IsKey)

\* C12: the Power Duration Curve section of format_workout_details holds one
\* line for each label of POWER_DURATION_BENCHMARKS that is a key of
\* power_duration_curve, and no other line, in the canonical order '1s' ..
\* '5h' whatever the insertion order of the mapping.
C12_CurveCanonicalOrder ==
    (out["format_workout_details"].k = "ok"
       /\ Has(out["format_workout_details"].lines, "Power Duration Curve:")) =>
        LET lines == out["format_workout_details"].lines
            curve == rec["power_duration_curve"]
            present == PresentBenchmarks(curve)
            i == FirstIndex(lines, "Power Duration Curve:")
        IN  /\ curve.k = "dict"
            /\ Len(lines) > i + Len(present)
            /\ \A j \in 1..Len(present) :
                 /\ lines[i + j][1] = "  "
                 /\ lines[i + j][2] = present[j]
                 /\ lines[i + j][3] = ": "
                 /\ lines[i + j][5] = " W"
            /\ lines[i + Len(present) + 1] = Blank

\* C12: the details of a workout whose curve was built as 5min, then 1s, were
\* rendered with the 1s line before the 5min line.
C12_Witness ==
    /\ kind = "workout"
    /\ out["format_workout_details"].k = "ok"
    /\ rec["power_duration_curve"]
         = PyDict(<< <<"5min", PyInt(300)>>, <<"1s", PyInt(900)>> >>)
    /\ LET lines == out["format_workout_details"].lines
           i == FirstIndex(lines, "Power Duration Curve:")
       IN  /\ Text(lines[i + 1]) = "  1s: 900 W"
           /\ Text(lines[i + 2]) = "  5min: 300 W"
           /\ lines[i + 3] = Blank

\* The tokens of a lap group joined by ' / '.
RECURSIVE SlashJoined(_)
SlashJoined(tokens) ==
    IF tokens = <<>> THEN ""
    ELSE IF Len(tokens) = 1 THEN tokens[1]
    ELSE tokens[1] \o " / " \o SlashJoined(Tail(tokens))

\* The token of a sub-metric when it is non-null, else nothing.
Token(lap, f, text) == IF NonNull(lap, f) THEN <<text>> ELSE <<>>

\* The groups of format_workout_lap: the piece that opens the line, the
\* tokens of the non-null sub-metrics in their fixed order, the suffix.
LapGroupLines(lap) ==
    {<<"    Power: ",
       Token(lap, "avg_power", "Avg " \o Str(lap["avg_power"]) \o "W")
         \o Token(lap, "normalized_power", "NP " \o Str(lap["normalized_power"]) \o "W")
         \o Token(lap, "max_power", "Max " \o Str(lap["max_power"]) \o "W"),
       "">>,
     <<"    HR: ",
       Token(lap, "avg_heart_rate", "Avg " \o Str(lap["avg_heart_rate"]))
         \o Token(lap, "max_heart_rate", "Max " \o Str(lap["max_heart_rate"])),
       " bpm">>,
     <<"    Load: ",
       Token(lap, "intensity_factor", "IF " \o Fmt(lap["intensity_factor"], 2))
         \o Token(lap, "variability_index", "VI " \o Fmt(lap["variability_index"], 2))
         \o Token(lap, "training_stress_score",
                  "TSS " \o Fmt(lap["training_stress_score"], 0)),
       "">>,
     <<"    Efficiency: ",
       Token(lap, "efficiency_factor", "EF " \o Fmt(lap["efficiency_factor"], 2))
         \o Token(lap, "power_hr_ratio", "P:HR " \o Fmt(lap["power_hr_ratio"], 2)),
       "">>}

\* C13: in format_workout_lap each of the Power, HR, Load and Efficiency
\* lines is emitted iff at least one of its sub-metrics is non-null (0
\* included), and it holds exactly the non-null sub-metrics, in fixed order,
\* joined by ' / '.
C13_LapGroups ==
    (kind = "lap" /\ out["format_workout_lap"].k = "ok") =>
        LET lines == out["format_workout_lap"].lines
        IN  \A g \in LapGroupLines(rec) :
                /\ Has(lines, g[1]) <=> g[2] # <<>>
                /\ g[2] # <<>> =>
                     LineText(lines, g[1]) = g[1] \o SlashJoined(g[2]) \o g[3]
                /\ \A i, j \in 1..Len(lines) :
                     (lines[i][1] = g[1] /\ lines[j][1] = g[1]) => i = j

\* C13: a lap with avg_power = 0 as its only power sub-metric and no heart
\* rate was rendered with the line 'Power: Avg 0W' and no HR line, and the
\* fully populated lap with 'Power: Avg 250W / NP 255W / Max 380W'.
C13_Witness ==
    /\ kind = "lap"
    /\ out["format_workout_lap"].k = "ok"
    /\ rec["avg_power"] = PyInt(0)
    /\ IsNull(rec, "normalized_power") /\ IsNull(rec, "max_power")
    /\ IsNull(rec, "avg_heart_rate") /\ IsNull(rec, "max_heart_rate")
    /\ LineText(out["format_workout_lap"].lines, "    Power: ") = "    Power: Avg 0W"
    /\ ~Has(out["format_workout_lap"].lines, "    HR: ")
    /\ LineText(LapLines(SampleLap(1)), "    Power: ")
         = "    Power: Avg 250W / NP 255W / Max 380W"
    /\ LineText(LapLines(SampleLap(1)), "    HR: ") = "    HR: Avg 160 / Max 172 bpm"

\* C14: in format_workout_details the Decoupling section appears iff
\* cardiac_drift or power_fade is non-null, a value of 0 included, and
\* inside it the Cardiac Drift and the Power Fade line each appear iff their
\* own field is non-null.
C14_Decoupling ==
    (kind = "workout" /\ out["format_workout_details"].k = "ok") =>
        LET lines == out["format_workout_details"].lines
        IN  /\ Has(lines, "Decoupling:")
                 <=> (NonNull(rec, "cardiac_drift") \/ NonNull(rec, "power_fade"))
            /\ Has(lines, "  Cardiac Drift: ") <=> NonNull(rec, "cardiac_drift")
            /\ Has(lines, "  Power Fade: ") <=> NonNull(rec, "power_fade")
            /\ Has(lines, "  Cardiac Drift: ") =>
                 FirstIndex(lines, "  Cardiac Drift: ")
                   = FirstIndex(lines, "Decoupling:") + 1
            /\ Has(lines, "  Power Fade: ") =>
                 FirstIndex(lines, "  Power Fade: ")
                   = FirstIndex(lines, "Decoupling:")
                       + (IF NonNull(rec, "cardiac_drift") THEN 2 ELSE 1)

\* C14: the details of a workout with cardiac_drift = 0 and no power_fade
\* were rendered with the Decoupling section and its 'Cardiac Drift: 0.0%'
\* line only.
C14_Witness ==
    /\ kind = "workout"
    /\ out["format_workout_details"].k = "ok"
    /\ rec["cardiac_drift"] = PyInt(0)
    /\ IsNull(rec, "power_fade")
    /\ Has(out["format_workout_details"].lines, "Decoupling:")
    /\ LineText(out["format_workout_details"].lines, "  Cardiac Drift: ")
         = "  Cardiac Drift: 0.0%"
    /\ ~Has(out["format_workout_details"].lines, "  Power Fade: ")

\* The line of a sensor triple: '  {label}: {min} / {avg} / {max}{unit}
\* (min/avg/max)'.
HasTriple(lines, label) ==
    \E i \in 1..Len(lines) :
        Len(lines[i]) = 10 /\ lines[i][1] = "  " /\ lines[i][2] = label

TripleText(lines, label) ==
    Text(lines[CHOOSE i \in 1..Len(lines) :
                  Len(lines[i]) = 10 /\ lines[i][1] = "  " /\ lines[i][2] = label])

\* A member of an included triple: its value with one decimal, or 'N/A'.
MemberText(d, f) == IF NonNull(d, f) THEN Fmt(d[f], 1) ELSE "N/A"

\* The CORE Sensor block with `degrees` as the unit of the temperature
\* triples: the block is present iff one of the nine fields is non-null, and
\* each triple iff one of its three fields is, with N/A for a missing member.
CoreSensorBlock(degrees) ==
    (kind = "workout" /\ out["format_workout_details"].k = "ok") =>
        LET lines == out["format_workout_details"].lines
        IN  /\ Has(lines, "CORE Sensor:")
                 <=> \E f \in WorkoutSensorFields : NonNull(rec, f)
            /\ \A t \in 1..Len(CoreFields) :
                 LET keys == CoreFields[t]
                     unit == IF t = 3 THEN " Heat Strain Index" ELSE degrees
                 IN  /\ HasTriple(lines, keys[4])
                          <=> \E j \in 1..3 : NonNull(rec, keys[j])
                     /\ HasTriple(lines, keys[4]) =>
                          TripleText(lines, keys[4])
                            = "  " \o keys[4] \o ": " \o MemberText(rec, keys[1])
                                \o " / " \o MemberText(rec, keys[2])
                                \o " / " \o MemberText(rec, keys[3])
                                \o unit \o " (min/avg/max)"

\* C15: in format_workout_details the CORE Sensor block is included iff one
\* of the nine min/avg/max sensor fields is non-null, each of the triples
\* Core Temp, Skin Temp and Heat Strain is rendered iff one of its values is
\* non-null, with 'N/A' for a missing member, and the unit suffix is a space,
\* the degree sign U+00B0 and C for the temperature triples and
\* ' Heat Strain Index' for the strain triple.
C15_CoreSensorBlock == CoreSensorBlock(" \\u00b0C")

\* The description as the summary is to show it: the first 100 characters
\* and '...' when it is longer than 100 characters, else the whole text.
Truncated(s) == IF Len(s) > 100 THEN SubSeq(s, 1, 100) \o "..." ELSE s

\* The description text that format_event_summary rendered: what follows
\* '  Description: ' on its line, and nothing when there is no such line.
RenderedDescription(lines) ==
    IF Has(lines, "  Description: ")
    THEN LET text == LineText(lines, "  Description: ")
         IN  SubSeq(text, Len("  Description: ") + 1, Len(text))
    ELSE ""

\* C16: in format_event_summary a present description of more than 100
\* characters is rendered as its first 100 characters followed by '...', and
\* one of at most 100 characters is rendered unmodified, so the rendered
\* description text never exceeds 103 characters; every non-empty
\* description has its line.
C16_DescriptionTruncation ==
    (kind = "event" /\ out["format_event_summary"].k = "ok"
       /\ NonNull(rec, "description")) =>
        LET lines == out["format_event_summary"].lines
            s == rec["description"].s
        IN  /\ RenderedDescription(lines) = Truncated(s)
            /\ Len(RenderedDescription(lines)) <= 103
            /\ s # "" => Has(lines, "  Description: ")
            /\ Len(s) <= 100 => RenderedDescription(lines) = s
            /\ Len(s) > 100 =>
                 /\ Len(RenderedDescription(lines)) = 103
                 /\ SubSeq(RenderedDescription(lines), 1, 100) = SubSeq(s, 1, 100)
                 /\ SubSeq(RenderedDescription(lines), 101, 103) = "..."

\* C16: a description of 101 characters was rendered as its first 100
\* characters and '...', and one of exactly 100 characters unmodified.
C16_Witness ==
    /\ kind = "event"
    /\ out["format_event_summary"].k = "ok"
    /\ rec["description"] = PyStr(Description101)
    /\ RenderedDescription(out["format_event_summary"].lines)
         = Description100 \o "..."
    /\ RenderedDescription(EventSummaryLines(
                              [rec EXCEPT !["description"] = PyStr(Description100)]))
         = Description100

\* The record has a non-empty lap list.
HasLaps(d) == NonNull(d, "laps") /\ d["laps"].k = "list" /\ Len(d["laps"].items) > 0

\* The indices of the lines that open a lap block, in output order.
LapHeaders(lines) == SelectSeq([i \in 1..Len(lines) |-> i],
                               LAMBDA i : lines[i][1] = "  Lap ")

\* C17: format_workout_summary has the line 'Laps: n', and
\* format_workout_details the block 'Laps (n):', iff the record has a
\* non-empty lap list; the block then holds the rendering of every lap of the
\* list by format_workout_lap, in list order, so it holds n lap blocks.
C17_LapsRendered ==
    /\ out["format_workout_summary"].k = "ok" =>
         LET lines == out["format_workout_summary"].lines
         IN  /\ Has(lines, "  Laps: ") <=> HasLaps(rec)
             /\ HasLaps(rec) =>
                  LineText(lines, "  Laps: ")
                    = "  Laps: " \o ToString(Len(rec["laps"].items))
    /\ out["format_workout_details"].k = "ok" =>
         LET lines == out["format_workout_details"].lines
         IN  /\ Has(lines, "Laps (") <=> HasLaps(rec)
             /\ ~HasLaps(rec) => LapHeaders(lines) = <<>>
             /\ HasLaps(rec) =>
                  LET laps == rec["laps"].items
                      n == Len(laps)
                      h == FirstIndex(lines, "Laps (")
                      heads == LapHeaders(lines)
                  IN  /\ Text(lines[h]) = "Laps (" \o ToString(n) \o "):"
                      /\ Len(heads) = n
                      /\ heads[1] = h + 1
                      /\ \A j \in 1..n :
                           LET last == IF j < n THEN heads[j + 1] - 1 ELSE Len(lines)
                           IN  SubSeq(lines, heads[j], last) = LapLines(laps[j])

\* C17: a workout with a list of three laps was rendered, the summary with
\* 'Laps: 3' and the details with 'Laps (3):' and the three lap blocks
\* 'Lap 1 - Interval 1', 'Lap 5', 'Lap 3' in list order.
C17_Witness ==
    /\ kind = "workout"
    /\ out["format_workout_summary"].k = "ok"
    /\ out["format_workout_details"].k = "ok"
    /\ HasLaps(rec) /\ Len(rec["laps"].items) = 3
    /\ LineText(out["format_workout_summary"].lines, "  Laps: ") = "  Laps: 3"
    /\ LET lines == out["format_workout_details"].lines
           heads == LapHeaders(lines)
       IN  /\ Text(lines[FirstIndex(lines, "Laps (")]) = "Laps (3):"
           /\ Len(heads) = 3
           /\ Text(lines[heads[1]]) = "  Lap 1 - Interval 1"
           /\ Text(lines[heads[2]]) = "  Lap 5"
           /\ Text(lines[heads[3]]) = "  Lap 3"

\* The section headers of format_workout_details, in the order of the
\* claim, each by the piece that opens its header line.
DetailsSections ==
    <<"General Information:", "Duration:", "Distance & Elevation:", "Speed:",
      "Power:", "Power Duration Curve:", "Heart Rate:", "Training Metrics:",
      "Decoupling:", "Energy:", "Subjective:", "Heart Rate Zones", "Power Zones",
      "Temperature Zones", "Core Temperature Zones", "Skin Temperature Zones",
      "Heat Strain Zones", "CORE Sensor:", "Notes: ", "Source:", "Laps (">>

\* The sections every record has.
AlwaysSections ==
    {"General Information:", "Duration:", "Distance & Elevation:", "Speed:",
     "Power:", "Heart Rate:", "Training Metrics:", "Energy:", "Source:"}

\* The indices of the lines opened by `piece`.
Occurrences(lines, piece) == {i \in 1..Len(lines) : lines[i][1] = piece}

\* C18: the section headers that format_workout_details emits appear in one
\* fixed relative order, each at most once, and General Information,
\* Duration, Distance & Elevation, Speed, Power, Heart Rate, Training
\* Metrics, Energy and Source are present for every record.
C18_SectionOrder ==
    out["format_workout_details"].k = "ok" =>
        LET lines == out["format_workout_details"].lines
        IN  /\ \A a, b \in 1..Len(DetailsSections) :
                 a < b =>
                   \A i \in Occurrences(lines, DetailsSections[a]) :
                      \A j \in Occurrences(lines, DetailsSections[b]) : i < j
            /\ \A a \in 1..Len(DetailsSections) :
                 Cardinality(Occurrences(lines, DetailsSections[a])) <= 1
            /\ \A s \in AlwaysSections : Occurrences(lines, s) # {}

\* C18: the details of the record with no field at all were rendered with
\* the nine permanent sections and no other, and those of a fully populated
\* record with all twenty-one.
C18_Witness ==
    /\ kind = "workout"
    /\ out["format_workout_details"].k = "ok"
    /\ \A f \in WorkoutFields : rec[f] = Absent
    /\ \A a \in 1..Len(DetailsSections) :
         Has(out["format_workout_details"].lines, DetailsSections[a])
           <=> DetailsSections[a] \in AlwaysSections
    /\ \A a \in 1..Len(DetailsSections) :
         Has(DetailsLines([f \in WorkoutFields |-> WorkoutTypical(f)]),
             DetailsSections[a])

\* The text holds the token ' - '.
HasDash(text) == \E i \in 1..(Len(text) - 2) : SubSeq(text, i, i + 2) = " - "

\* C19: the first line of format_workout_lap is 'Lap {index}', with
\* ' - {name}' appended iff a name is present (non-null) in the lap record;
\* with no name present no line of the lap block holds a ' - ' token.
C19_LapHeaderName ==
    (kind = "lap" /\ out["format_workout_lap"].k = "ok") =>
        LET lines == out["format_workout_lap"].lines
            index == IF rec["lap_index"] = Absent THEN "?" ELSE Str(rec["lap_index"])
        IN  /\ NonNull(rec, "name") =>
                 Text(lines[1]) = "  Lap " \o index \o " - " \o rec["name"].s
            /\ IsNull(rec, "name") =>
                 /\ Text(lines[1]) = "  Lap " \o index
                 /\ \A i \in 1..Len(lines) : ~HasDash(Text(lines[i]))

\* The number n shown by the summary's 'Laps: n' line, as text.
SummaryLapCount(lines) ==
    LET text == LineText(lines, "  Laps: ")
    IN  SubSeq(text, Len("  Laps: ") + 1, Len(text))

\* The number n shown by the details' 'Laps (n):' header, as text.
DetailsLapCount(lines) ==
    LET text == LineText(lines, "Laps (")
    IN  SubSeq(text, Len("Laps (") + 1, Len(text) - Len("):"))

\* A zone line: two spaces, the zone's label, ': ' and a duration.
IsZoneLine(line) == Len(line) = 4 /\ line[1] = "  " /\ line[3] = ": "

\* C20: on every workout record format_workout_summary has a 'Laps: n' line
\* exactly when format_workout_details has a 'Laps (n):' header, both with
\* the length of the lap list as n; and in the details every zone-section
\* header is followed by at least one zone line.
C20_SummaryDetailsAgree ==
    /\ (out["format_workout_summary"].k = "ok"
          /\ out["format_workout_details"].k = "ok") =>
         LET summary == out["format_workout_summary"].lines
             details == out["format_workout_details"].lines
         IN  /\ Has(summary, "  Laps: ") <=> Has(details, "Laps (")
             /\ Has(summary, "  Laps: ") =>
                  /\ SummaryLapCount(summary) = DetailsLapCount(details)
                  /\ SummaryLapCount(summary) = ToString(Len(rec["laps"].items))
    /\ out["format_workout_details"].k = "ok" =>
         LET details == out["format_workout_details"].lines
         IN  \A z \in ZoneSections :
                \A i \in Occurrences(details, z[2]) :
                    /\ i < Len(details)
                    /\ IsZoneLine(details[i + 1])

\* C20: both formatters were called on a workout with two laps and a
\* heart-rate zone map, and on one with an empty zone map and no laps.
C20_Witness ==
    /\ kind = "workout"
    /\ out["format_workout_summary"].k = "ok"
    /\ out["format_workout_details"].k = "ok"
    /\ HasLaps(rec) /\ Len(rec["laps"].items) = 2
    /\ SummaryLapCount(out["format_workout_summary"].lines) = "2"
    /\ DetailsLapCount(out["format_workout_details"].lines) = "2"
    /\ Has(out["format_workout_details"].lines, "Heart Rate Zones")
    /\ LET empty == [rec EXCEPT !["time_in_hr_zone"] = PyDict(<<>>),
                                !["laps"] = PyList(<<>>)]
       IN  /\ ~Has(DetailsLines(empty), "Heart Rate Zones")
           /\ ~Has(DetailsLines(empty), "Laps (")
           /\ ~Has(SummaryLines(empty), "  Laps: ")

===========================================================================
